---- MODULE Spec2Model ----
(***************************************************************************)
(* Model of the model-views crates.                                        *)
(*                                                                         *)
(*  - model-views-derive/src/lib.rs: the #[derive(Views)] macro            *)
(*    (derive_views), which turns one struct declaration into up to three  *)
(*    view structs and their View<Mode> impls.                             *)
(*  - model-views/src/lib.rs: the View trait and the trivial_view! impls   *)
(*    that the generated field types <T as View<M>>::Type project through. *)
(*  - model-views/src/patch.rs: the Patch<T> value and its conversions.    *)
(***************************************************************************)
EXTENDS Integers, Sequences, FiniteSets, TLC

(***************************************************************************)
(* Bounds of the model.                                                    *)
(***************************************************************************)
\* Largest number of fields of the struct given to one derive_views call.
MaxFields == 2
\* Number of structs of one crate, each nesting the ones before it.
MaxModels == 2
\* Largest number of fields of a struct of that crate.
MaxNestedFields == 1
\* Number of distinct values of the type a Patch wraps.
MaxVal == 3

(***************************************************************************)
(* core::option::Option<T>: None is the empty sequence, Some(x) is <<x>>.  *)
(***************************************************************************)
None == <<>>

Some(x) == <<x>>

unwrap_or(o, d) == IF o = None THEN d ELSE o[1]

Range(s) == {s[i] : i \in 1..Len(s)}

(***************************************************************************)
(* The access modes (model-views/src/lib.rs).                              *)
(***************************************************************************)
ViewModeGet == "ViewModeGet"

ViewModeCreate == "ViewModeCreate"

ViewModePatch == "ViewModePatch"

ViewModes == {ViewModeGet, ViewModeCreate, ViewModePatch}

\* trivial_view!(...): every listed type implements View<M> for every mode M
\* with Type = itself.
TrivialTypes ==
    {"bool", "i8", "u8", "i16", "u16", "i32", "u32", "i64", "u64", "i128",
     "u128", "f32", "f64", "String", "&'static str"}

trivial_view ==
    {[for |-> t, mode |-> m, Type |-> t] : t \in TrivialTypes, m \in ViewModes}

(***************************************************************************)
(* Token streams the macro builds with quote!.                             *)
(*                                                                         *)
(* A type expression  W1<W2<...<<fty as View<mode>>::Type>...>>  is the    *)
(* record [wrap |-> <<W1, W2, ...>>, of |-> fty, mode |-> mode].           *)
(***************************************************************************)
ViewType(fty, mode) == [wrap |-> <<>>, of |-> fty, mode |-> mode]

OptionOf(ty) == [ty EXCEPT !.wrap = <<"Option">> \o @]

PatchOf(ty) == [ty EXCEPT !.wrap = <<"Patch">> \o @]

\* quote! { pub #ident: #ty, }
FieldTokens(ident, ty) == [kind |-> "field", ident |-> ident, ty |-> ty]

\* quote! { #[serde(default, skip_serializing_if = "Option::is_none")] }
SerdeDefaultAttr ==
    [kind |-> "attr",
     text |-> "serde(default, skip_serializing_if = \"Option::is_none\")"]

(***************************************************************************)
(* derive_views: the loop body, one match per mode.  acc holds the locals  *)
(* of derive_views; acc.panic is Some(message) once a panic! has unwound.  *)
(***************************************************************************)
InitLocals ==
    [create_fields |-> <<>>, read_fields |-> <<>>, patch_fields |-> <<>>,
     has_get |-> FALSE, has_create |-> FALSE, has_patch |-> FALSE,
     panic |-> None]

\* panic!("unknown get policy: {other}") and its two siblings: the message is
\* kept as its format pieces.
\* Mutant: the message stops before the offending string.
Panic_WithoutToken(acc, pieces) == [acc EXCEPT !.panic = Some(<<pieces[1]>>)]

Panic(acc, pieces) == [acc EXCEPT !.panic = Some(pieces)]

\* policies with defaults
get_p(f) == unwrap_or(f.get, "required")

crt_p(f) == unwrap_or(f.create, "required")

\* Mutant: a patch policy left out counts as "optional".
patch_p_DefaultOptional(f) == unwrap_or(f.patch, "optional")

patch_p(f) == unwrap_or(f.patch, "patch")

\* Mutant: the field is pushed at the front of read_fields.
MatchGet_Prepended(acc, f) ==
    LET ty == ViewType(f.ty, ViewModeGet)
    IN  CASE get_p(f) = "required" ->
               [acc EXCEPT !.has_get = TRUE,
                           !.read_fields = <<FieldTokens(f.ident, ty)>> \o @]
          [] get_p(f) = "optional" ->
               [acc EXCEPT !.has_get = TRUE,
                           !.read_fields =
                               <<FieldTokens(f.ident, OptionOf(ty))>> \o @]
          [] get_p(f) = "forbidden" -> acc
          [] OTHER -> Panic(acc, <<"unknown get policy: ", get_p(f)>>)

MatchGet(acc, f) ==
    LET ty == ViewType(f.ty, ViewModeGet)
    IN  CASE get_p(f) = "required" ->
               [acc EXCEPT !.has_get = TRUE,
                           !.read_fields = Append(@, FieldTokens(f.ident, ty))]
          [] get_p(f) = "optional" ->
               [acc EXCEPT !.has_get = TRUE,
                           !.read_fields =
                               Append(@, FieldTokens(f.ident, OptionOf(ty)))]
          [] get_p(f) = "forbidden" -> acc
          [] OTHER -> Panic(acc, <<"unknown get policy: ", get_p(f)>>)

\* Mutant: the "forbidden" arm pushes the field like the "required" arm,
\* without setting has_create.
MatchCreate_ForbiddenPushed(acc, f, with_serde) ==
    LET ty == ViewType(f.ty, ViewModeCreate)
    IN  CASE crt_p(f) = "required" ->
               [acc EXCEPT !.has_create = TRUE,
                           !.create_fields =
                               Append(@, FieldTokens(f.ident, ty))]
          [] crt_p(f) = "optional" ->
               [acc EXCEPT !.has_create = TRUE,
                           !.create_fields =
                               Append(IF with_serde
                                         THEN Append(@, SerdeDefaultAttr)
                                         ELSE @,
                                      FieldTokens(f.ident, OptionOf(ty)))]
          [] crt_p(f) = "forbidden" ->
               [acc EXCEPT !.create_fields =
                               Append(@, FieldTokens(f.ident, ty))]
          [] OTHER -> Panic(acc, <<"unknown create policy: ", crt_p(f)>>)

\* Mutant: the "required" arm sets has_get next to has_create.
MatchCreate_SetsHasGet(acc, f, with_serde) ==
    LET ty == ViewType(f.ty, ViewModeCreate)
    IN  CASE crt_p(f) = "required" ->
               [acc EXCEPT !.has_create = TRUE,
                           !.has_get = TRUE,
                           !.create_fields =
                               Append(@, FieldTokens(f.ident, ty))]
          [] crt_p(f) = "optional" ->
               [acc EXCEPT !.has_create = TRUE,
                           !.create_fields =
                               Append(IF with_serde
                                         THEN Append(@, SerdeDefaultAttr)
                                         ELSE @,
                                      FieldTokens(f.ident, OptionOf(ty)))]
          [] crt_p(f) = "forbidden" -> acc
          [] OTHER -> Panic(acc, <<"unknown create policy: ", crt_p(f)>>)

MatchCreate(acc, f, with_serde) ==
    LET ty == ViewType(f.ty, ViewModeCreate)
    IN  CASE crt_p(f) = "required" ->
               [acc EXCEPT !.has_create = TRUE,
                           !.create_fields =
                               Append(@, FieldTokens(f.ident, ty))]
          [] crt_p(f) = "optional" ->
               [acc EXCEPT !.has_create = TRUE,
                           !.create_fields =
                               Append(IF with_serde
                                         THEN Append(@, SerdeDefaultAttr)
                                         ELSE @,
                                      FieldTokens(f.ident, OptionOf(ty)))]
          [] crt_p(f) = "forbidden" -> acc
          [] OTHER -> Panic(acc, <<"unknown create policy: ", crt_p(f)>>)

\* Mutant: "optional" wraps like "patch", Patch<T> instead of Patch<Option<T>>.
MatchPatch_OptionalAsPatch(acc, f) ==
    LET ty == ViewType(f.ty, ViewModePatch)
    IN  CASE patch_p(f) \in {"patch", "optional"} ->
               [acc EXCEPT !.has_patch = TRUE,
                           !.patch_fields =
                               Append(@, FieldTokens(f.ident, PatchOf(ty)))]
          [] patch_p(f) = "forbidden" -> acc
          [] OTHER -> Panic(acc, <<"unknown patch policy: ", patch_p(f)>>)

\* Mutant: an unknown patch policy is skipped like "forbidden" (`_ => {}`).
MatchPatch_UnknownSkipped(acc, f) ==
    LET ty == ViewType(f.ty, ViewModePatch)
    IN  CASE patch_p(f) = "patch" ->
               [acc EXCEPT !.has_patch = TRUE,
                           !.patch_fields =
                               Append(@, FieldTokens(f.ident, PatchOf(ty)))]
          [] patch_p(f) = "optional" ->
               [acc EXCEPT !.has_patch = TRUE,
                           !.patch_fields =
                               Append(@, FieldTokens(f.ident,
                                                     PatchOf(OptionOf(ty))))]
          [] OTHER -> acc

\* Mutant: the patch field projects through View<ViewModeGet>.
MatchPatch_GetShape(acc, f) ==
    LET ty == ViewType(f.ty, ViewModeGet)
    IN  CASE patch_p(f) = "patch" ->
               [acc EXCEPT !.has_patch = TRUE,
                           !.patch_fields =
                               Append(@, FieldTokens(f.ident, PatchOf(ty)))]
          [] patch_p(f) = "optional" ->
               [acc EXCEPT !.has_patch = TRUE,
                           !.patch_fields =
                               Append(@, FieldTokens(f.ident,
                                                     PatchOf(OptionOf(ty))))]
          [] patch_p(f) = "forbidden" -> acc
          [] OTHER -> Panic(acc, <<"unknown patch policy: ", patch_p(f)>>)

MatchPatch(acc, f) ==
    LET ty == ViewType(f.ty, ViewModePatch)
    IN  CASE patch_p(f) = "patch" ->
               [acc EXCEPT !.has_patch = TRUE,
                           !.patch_fields =
                               Append(@, FieldTokens(f.ident, PatchOf(ty)))]
          [] patch_p(f) = "optional" ->
               [acc EXCEPT !.has_patch = TRUE,
                           !.patch_fields =
                               Append(@, FieldTokens(f.ident,
                                                     PatchOf(OptionOf(ty))))]
          [] patch_p(f) = "forbidden" -> acc
          [] OTHER -> Panic(acc, <<"unknown patch policy: ", patch_p(f)>>)

\* One iteration of `for f in &ds.fields`; a panic skips what follows it.
FieldBody(acc, f, with_serde) ==
    LET a1 == MatchGet(acc, f)
        a2 == IF a1.panic = None THEN MatchCreate(a1, f, with_serde) ELSE a1
    IN  IF a2.panic = None THEN MatchPatch(a2, f) ELSE a2

RECURSIVE ForFields(_, _, _, _)
ForFields(fields, i, acc, with_serde) ==
    IF i > Len(fields) \/ acc.panic # None
       THEN acc
       ELSE ForFields(fields, i + 1, FieldBody(acc, fields[i], with_serde),
                      with_serde)

(***************************************************************************)
(* derive_views: the items pushed after the loop.                          *)
(***************************************************************************)
create_ident(name) == name \o "Create"

read_ident(name) == name \o "Get"

patch_ident(name) == name \o "Patch"

serialize_attrs(with_serde) ==
    IF with_serde
       THEN <<"derive(::serde::Serialize)", "serde(deny_unknown_fields)">>
       ELSE <<>>

deserialize_attrs(with_serde) ==
    IF with_serde
       THEN <<"derive(::serde::Deserialize)", "serde(deny_unknown_fields)">>
       ELSE <<>>

\* A struct definition followed by `impl View<mode> for name { type Type = ident; }`.
Item(ident, attrs, body, mode, name) ==
    [ident |-> ident, attrs |-> attrs, body |-> body,
     impl |-> [for |-> name, mode |-> mode, Type |-> ident]]

\* Mutant: the three items are pushed whatever has_create, has_get and
\* has_patch say.
Items_Unconditional(name, acc, with_serde) ==
    <<Item(create_ident(name), deserialize_attrs(with_serde),
           acc.create_fields, ViewModeCreate, name),
      Item(read_ident(name), serialize_attrs(with_serde),
           acc.read_fields, ViewModeGet, name),
      Item(patch_ident(name),
           <<"derive(::core::default::Default)">>
               \o deserialize_attrs(with_serde),
           acc.patch_fields, ViewModePatch, name)>>

Items(name, acc, with_serde) ==
    (IF acc.has_create
        THEN <<Item(create_ident(name), deserialize_attrs(with_serde),
                    acc.create_fields, ViewModeCreate, name)>>
        ELSE <<>>)
    \o
    (IF acc.has_get
        THEN <<Item(read_ident(name), serialize_attrs(with_serde),
                    acc.read_fields, ViewModeGet, name)>>
        ELSE <<>>)
    \o
    (IF acc.has_patch
        THEN <<Item(patch_ident(name),
                    <<"derive(::core::default::Default)">>
                        \o deserialize_attrs(with_serde),
                    acc.patch_fields, ViewModePatch, name)>>
        ELSE <<>>)

\* The whole macro: meta is the parsed ViewsInput.  The result is either the
\* panic message (the compiler then gets no tokens at all) or the items.
derive_views(meta) ==
    LET with_serde == unwrap_or(meta.serde, FALSE)
    IN  IF meta.data = "struct"
           THEN LET acc == ForFields(meta.fields, 1, InitLocals, with_serde)
                IN  IF acc.panic # None
                       THEN [panic |-> acc.panic, items |-> <<>>]
                       ELSE [panic |-> None,
                             items |-> Items(meta.ident, acc, with_serde)]
           ELSE [panic |->
                     Some(<<"#[derive(Views)] supports struct with named fields only">>),
                 items |-> <<>>]

(***************************************************************************)
(* What the compiler does with the emitted items: a struct body is its     *)
(* field tokens, each preceded by its attributes, and every field type     *)
(* <fty as View<M>>::Type is projected through the View impls in scope.    *)
(***************************************************************************)
StructFields(body) == SelectSeq(body, LAMBDA t : t.kind = "field")

\* Mutant: any View impl of the type is taken, whatever its mode.
FindImpl_AnyMode(in_scope, fty, mode) ==
    LET hit == {i \in in_scope : i.for = fty}
    IN  IF hit = {} THEN None ELSE Some((CHOOSE i \in hit : TRUE).Type)

\* The View impl for (fty, mode) among those in scope, if any.
FindImpl(in_scope, fty, mode) ==
    LET hit == {i \in in_scope : i.for = fty /\ i.mode = mode}
    IN  IF hit = {} THEN None ELSE Some((CHOOSE i \in hit : TRUE).Type)

\* Some(resolved type path) or None when `fty: View<mode>` does not hold.
Project(in_scope, ty) ==
    LET found == FindImpl(in_scope, ty.of, ty.mode)
    IN  IF found = None THEN None ELSE Some(ty.wrap \o <<found[1]>>)

ImplsOf(items) == {items[i].impl : i \in 1..Len(items)}

\* The resolved view structs of an expansion: per item its name, its mode and
\* its fields as (ident, resolved type) pairs.
Resolve(in_scope, items) ==
    [i \in 1..Len(items) |->
        [ident |-> items[i].ident,
         mode |-> items[i].impl.mode,
         fields |->
             LET fs == StructFields(items[i].body)
             IN  [j \in 1..Len(fs) |->
                     [ident |-> fs[j].ident,
                      ty |-> Project(in_scope, fs[j].ty)]]]]

Unresolved(views) ==
    \E i \in 1..Len(views) :
        \E j \in 1..Len(views[i].fields) : views[i].fields[j].ty = None

(***************************************************************************)
(* Inputs: the struct declarations fed to the macro.                       *)
(***************************************************************************)
\* Names of the structs of the crate, in the order they are derived.
ModelIdents == <<"Author", "Post", "Blog", "Site">>

\* Field names by position in the struct.
FieldIdents == <<"id", "name", "email", "author">>

\* Policy strings given in #[views(...)]: the known ones of all three modes
\* ("required" is unknown to patch, "patch" is unknown to get and create).
PolicyTokens == {"required", "optional", "forbidden", "patch"}

PolicyInputs == {None} \cup {Some(t) : t \in PolicyTokens}

\* The policies of the structs of a crate that compiles: every match arm but
\* the panicking one, the first arm through the default.
CratePolicyInputs == {None, Some("optional"), Some("forbidden")}

\* Types a field of the k-th struct may have: a scalar or an earlier struct.
FieldTypes(k) == {"String"} \cup {ModelIdents[j] : j \in 1..(k - 1)}

ViewsField(i, ty, g, c, p) ==
    [ident |-> FieldIdents[i], ty |-> ty, get |-> g, create |-> c, patch |-> p]

FieldDecls(i, k, policies) ==
    {ViewsField(i, ty, g, c, p) :
        ty \in FieldTypes(k), g \in policies, c \in policies, p \in policies}

RECURSIVE FieldLists(_, _, _)
FieldLists(n, k, policies) ==
    IF n = 0
       THEN {<<>>}
       ELSE {Append(fs, f) : fs \in FieldLists(n - 1, k, policies),
                             f \in FieldDecls(n, k, policies)}

\* The last field of a struct of n fields, as a list: empty when n = 0.
LastField(n, k, policies) ==
    IF n = 0 THEN {<<>>} ELSE {<<f>> : f \in FieldDecls(n, k, policies)}

FieldsBefore(n) == IF n = 0 THEN 0 ELSE n - 1

ViewsInput(k, data, fields, serde) ==
    [ident |-> ModelIdents[k], data |-> data, fields |-> fields,
     serde |-> serde]

(***************************************************************************)
(* The documented example and the structs of tests/derive.rs.              *)
(***************************************************************************)
\* #[derive(Views)] #[views(serde)] struct User { id, name, email }
UserExample ==
    [ident |-> "User", data |-> "struct", serde |-> Some(TRUE),
     fields |->
        <<[ident |-> "id", ty |-> "i64", get |-> Some("required"),
           create |-> Some("forbidden"), patch |-> Some("forbidden")],
          [ident |-> "name", ty |-> "String", get |-> Some("required"),
           create |-> Some("required"), patch |-> Some("patch")],
          [ident |-> "email", ty |-> "String", get |-> Some("optional"),
           create |-> Some("optional"), patch |-> Some("optional")]>>]

NestedModel(serde) ==
    [ident |-> "NestedModel", data |-> "struct", serde |-> Some(serde),
     fields |->
        <<[ident |-> "id", ty |-> "u64", get |-> Some("required"),
           create |-> Some("forbidden"), patch |-> Some("forbidden")],
          [ident |-> "name", ty |-> "String", get |-> Some("required"),
           create |-> None, patch |-> None]>>]

TestModel(serde) ==
    [ident |-> "TestModel", data |-> "struct", serde |-> Some(serde),
     fields |->
        <<[ident |-> "id", ty |-> "u64", get |-> Some("required"),
           create |-> Some("forbidden"), patch |-> Some("forbidden")],
          [ident |-> "name", ty |-> "String", get |-> Some("required"),
           create |-> None, patch |-> None],
          [ident |-> "author", ty |-> "NestedModel",
           get |-> Some("required"), create |-> Some("optional"),
           patch |-> Some("optional")]>>]

(***************************************************************************)
(* model-views/src/patch.rs: enum Patch<T> { Ignore, Update(T) }.          *)
(***************************************************************************)
Ignore == [tag |-> "Ignore"]

Update(value) == [tag |-> "Update", value |-> value]

\* Patch::update and Patch::ignore
update(value) == Update(value)

ignore == Ignore

into_option(self) ==
    IF self.tag = "Update" THEN Some(self.value) ELSE None

\* impl From<Patch<T>> for Option<T>
OptionFromPatch(value) == into_option(value)

\* Mutant: the value of Some is dropped.
PatchFromOption_AlwaysIgnore(value) == Ignore

\* impl From<Option<T>> for Patch<T>: value.map_or_else(|| Ignore, Update)
PatchFromOption(value) ==
    IF value = None THEN Ignore ELSE Update(value[1])

\* #[derive(Default)] with #[default] on Ignore
Default == Ignore

\* Mutant: every Patch counts as Ignore.
is_ignore_Always(self) == TRUE

\* matches!(self, Self::Ignore)
is_ignore(self) == self.tag = "Ignore"

\* Mutant: the `_ => false` arm answers true.
eq_OtherwiseTrue(self, other) ==
    CASE self.tag = "Update" /\ other # None -> self.value = other[1]
      [] self.tag = "Ignore" /\ other = None -> TRUE
      [] OTHER -> TRUE

\* impl PartialEq<Option<T>> for Patch<T>: match (self, other)
eq(self, other) ==
    CASE self.tag = "Update" /\ other # None -> self.value = other[1]
      [] self.tag = "Ignore" /\ other = None -> TRUE
      [] OTHER -> FALSE

(***************************************************************************)
(* patch.rs, mod serde.  What stands on the wire for one field of a        *)
(* patch view, in a self-describing format such as JSON: nothing (the key  *)
(* is omitted), null, or a number.                                         *)
(***************************************************************************)
Missing == [json |-> "missing"]

Null == [json |-> "null"]

Num(n) == [json |-> "number", n |-> n]

Ok(v) == [ok |-> TRUE, value |-> v]

Err(e) == [ok |-> FALSE, error |-> e]

\* i32::deserialize: a number, nothing else.
DeserializeI32(w) ==
    CASE w.json = "number" -> Ok(w.n)
      [] w.json = "null" -> Err("invalid type: null, expected i32")
      [] OTHER -> Err("missing field")

\* Option::<X>::deserialize: deserialize_option visits none on null (and on
\* a missing field), otherwise visits some with X::deserialize (inner).
deserialize_option(w, inner) ==
    IF w.json \in {"missing", "null"}
       THEN Ok(None)
       ELSE IF inner.ok THEN Ok(Some(inner.value)) ELSE inner

\* T::deserialize for the wrapped types of the model.
DeserializeT(ty, w) ==
    IF ty = "i32"
       THEN DeserializeI32(w)
       ELSE deserialize_option(w, DeserializeI32(w))

\* impl Deserialize for Patch<T>: delegate to Option<T>, map back.
Deserialize(ty, w) ==
    LET opt == deserialize_option(w, DeserializeT(ty, w))
    IN  IF ~opt.ok
           THEN opt
           ELSE Ok(IF opt.value = None THEN Ignore ELSE Update(opt.value[1]))

\* T::serialize for the wrapped types of the model.
SerializeT(ty, v) ==
    IF ty = "i32"
       THEN Num(v)
       ELSE (IF v = None THEN Null ELSE Num(v[1]))

\* impl Serialize for Patch<T>: serialize_some(v) or serialize_none().
Serialize(ty, self) ==
    IF self.tag = "Update" THEN SerializeT(ty, self.value) ELSE Null

\* The types T a Patch is instantiated with, and their values.
WrappedTypes == {"i32", "Option<i32>"}

Values(T) ==
    IF T = "i32"
       THEN 0..(MaxVal - 1)
       ELSE {None} \cup {Some(v) : v \in 0..(MaxVal - 1)}

PatchValues(T) == {Ignore} \cup {Update(v) : v \in Values(T)}

OptionValues(T) == {None} \cup {Some(v) : v \in Values(T)}

(***************************************************************************)
(* State.                                                                  *)
(***************************************************************************)
VARIABLES
    count,   \* number of structs derived so far
    meta,    \* the ViewsInput of the latest derive, None when there is none
    out,     \* what derive_views returned for it
    impls,   \* the View impls of the structs derived before it
    views,   \* the view structs of `out`, their field types resolved
    T,       \* the type the Patch values of a run wrap
    patch,   \* a Patch<T> value
    option,  \* an Option<T> value
    call     \* the last Patch operation: its name and its argument

deriveVars == <<count, meta, out, impls, views>>

patchVars == <<T, patch, option, call>>

vars == <<count, meta, out, impls, views, T, patch, option, call>>

NoOutput == [panic |-> None, items |-> <<>>]

NoCall == [op |-> "none", arg |-> None]

Init ==
    /\ count = 0
    /\ meta = None
    /\ out = NoOutput
    /\ impls = {}
    /\ views = <<>>
    /\ T = "i32"
    /\ patch = Ignore
    /\ option = None
    /\ call = NoCall

\* The compiler reaches the next #[derive(Views)] item: the macro expands it
\* and the field types of the emitted structs are resolved against the View
\* impls in scope (the trivial ones, the earlier structs', its own).
Derive(m) ==
    /\ meta' = Some(m)
    /\ out' = derive_views(m)
    /\ views' = Resolve(trivial_view \cup impls \cup ImplsOf(out'.items),
                        out'.items)
    /\ count' = count + 1
    /\ UNCHANGED impls
    /\ UNCHANGED patchVars

\* The struct compiled: its impls stay in scope for the structs after it.
Register ==
    /\ meta # None
    /\ out.panic = None
    /\ ~Unresolved(views)
    /\ count < MaxModels
    /\ impls' = impls \cup ImplsOf(out.items)
    /\ meta' = None
    /\ out' = NoOutput
    /\ views' = <<>>
    /\ UNCHANGED count
    /\ UNCHANGED patchVars

(***************************************************************************)
(* Spec: one derive_views call on any struct of up to MaxFields fields     *)
(* with any policy strings, on the documented example, or on something     *)
(* that is not a struct.                                                   *)
(***************************************************************************)
DeriveStruct ==
    /\ meta = None
    /\ \E n \in 0..MaxFields, serde \in {None, Some(TRUE)} :
          \E fields \in FieldLists(FieldsBefore(n), 1, PolicyInputs),
             last \in LastField(n, 1, PolicyInputs) :
              Derive(ViewsInput(1, "struct", fields \o last, serde))

DeriveExample ==
    /\ meta = None
    /\ Derive(UserExample)

DeriveNonStruct ==
    /\ meta = None
    /\ \E data \in {"enum", "union"} :
          Derive(ViewsInput(1, data, <<>>, None))

Next ==
    \/ DeriveStruct
    \/ DeriveExample
    \/ DeriveNonStruct

Spec == Init /\ [][Next]_vars

(***************************************************************************)
(* SpecCrate: a crate of up to MaxModels structs, derived in order, the    *)
(* fields of each a scalar or one of the structs before it.                *)
(***************************************************************************)
InScope(name) == \E i \in impls : i.for = name

DeriveNested ==
    /\ meta = None
    /\ \E n \in 0..MaxNestedFields, serde \in {None, Some(TRUE)} :
          \E fields \in FieldLists(FieldsBefore(n), count + 1,
                                    CratePolicyInputs),
             last \in LastField(n, count + 1, CratePolicyInputs) :
              Derive(ViewsInput(count + 1, "struct", fields \o last, serde))

\* tests/derive.rs, with and without the serde feature.
DeriveTest ==
    /\ meta = None
    /\ \E serde \in BOOLEAN :
          \E m \in {NestedModel(serde), TestModel(serde)} :
              /\ ~InScope(m.ident)
              /\ Derive(m)

NextCrate ==
    \/ DeriveNested
    \/ DeriveTest
    \/ Register

SpecCrate == Init /\ [][NextCrate]_vars

(***************************************************************************)
(* SpecPatch: Patch<T> values are built and converted to and from          *)
(* Option<T>.                                                              *)
(***************************************************************************)
\* No struct is derived; `patch` starts as Patch::default(), which
\* #[derive(Default)] with #[default] on Ignore makes Ignore.
InitPatch ==
    /\ count = 0
    /\ meta = None
    /\ out = NoOutput
    /\ impls = {}
    /\ views = <<>>
    /\ T \in WrappedTypes
    /\ patch = Ignore
    /\ option = None
    /\ call = NoCall

CallUpdate ==
    /\ \E v \in Values(T) :
          /\ patch' = update(v)
          /\ call' = [op |-> "update", arg |-> Some(v)]
    /\ UNCHANGED <<T, option>>
    /\ UNCHANGED deriveVars

CallIgnore ==
    /\ patch' = ignore
    /\ call' = [op |-> "ignore", arg |-> None]
    /\ UNCHANGED <<T, option>>
    /\ UNCHANGED deriveVars

\* The caller holds some Option<T>.
GivenOption ==
    /\ \E o \in OptionValues(T) :
          /\ option' = o
          /\ call' = [op |-> "given", arg |-> Some(o)]
    /\ UNCHANGED <<T, patch>>
    /\ UNCHANGED deriveVars

\* Option::from(patch)
CallIntoOption ==
    /\ option' = OptionFromPatch(patch)
    /\ call' = [op |-> "into_option", arg |-> Some(patch)]
    /\ UNCHANGED <<T, patch>>
    /\ UNCHANGED deriveVars

\* Patch::from(option)
CallFromOption ==
    /\ patch' = PatchFromOption(option)
    /\ call' = [op |-> "from_option", arg |-> Some(option)]
    /\ UNCHANGED <<T, option>>
    /\ UNCHANGED deriveVars

\* Patch::default()
CallDefault ==
    /\ patch' = Default
    /\ call' = [op |-> "default", arg |-> None]
    /\ UNCHANGED <<T, option>>
    /\ UNCHANGED deriveVars

\* patch.is_ignore()
CallIsIgnore ==
    /\ call' = [op |-> "is_ignore", arg |-> Some(patch),
                ret |-> is_ignore(patch)]
    /\ UNCHANGED <<T, patch, option>>
    /\ UNCHANGED deriveVars

\* patch == option
CallEq ==
    /\ call' = [op |-> "eq", arg |-> Some(<<patch, option>>),
                ret |-> eq(patch, option)]
    /\ UNCHANGED <<T, patch, option>>
    /\ UNCHANGED deriveVars

\* One field of a patch view is decoded: Patch::<T>::deserialize.  A decode
\* error leaves no value behind.
CallDeserialize ==
    /\ \E w \in {Missing, Null} \cup {Num(n) : n \in 0..(MaxVal - 1)} :
          LET r == Deserialize(T, w)
          IN  /\ call' = [op |-> "deserialize", arg |-> Some(w), ret |-> r]
              /\ patch' = IF r.ok THEN r.value ELSE patch
    /\ UNCHANGED <<T, option>>
    /\ UNCHANGED deriveVars

\* One field of a patch view is encoded: patch.serialize.
CallSerialize ==
    /\ call' = [op |-> "serialize", arg |-> Some(patch),
                ret |-> Serialize(T, patch)]
    /\ UNCHANGED <<T, patch, option>>
    /\ UNCHANGED deriveVars

NextPatch ==
    \/ CallUpdate
    \/ CallIgnore
    \/ GivenOption
    \/ CallIntoOption
    \/ CallFromOption
    \/ CallDefault
    \/ CallIsIgnore
    \/ CallEq
    \/ CallDeserialize
    \/ CallSerialize

SpecPatch == InitPatch /\ [][NextPatch]_vars

(***************************************************************************)
(* Properties.  Vocabulary shared by the statements below.                 *)
(***************************************************************************)
\* The struct of the latest derive.
Model == meta[1]

\* derive_views returned items for a struct (it did not panic).
Derived == meta # None /\ out.panic = None

ModeWord(mode) ==
    CASE mode = ViewModeGet -> "get"
      [] mode = ViewModeCreate -> "create"
      [] OTHER -> "patch"

\* The policy of field f for a mode, defaults applied.
PolicyFor(f, mode) ==
    CASE mode = ViewModeGet -> get_p(f)
      [] mode = ViewModeCreate -> crt_p(f)
      [] OTHER -> patch_p(f)

KnownPolicies(mode) ==
    IF mode = ViewModePatch
       THEN {"patch", "optional", "forbidden"}
       ELSE {"required", "optional", "forbidden"}

Included(f, mode) == PolicyFor(f, mode) # "forbidden"

FieldIndexes == IF meta = None THEN {} ELSE 1..Len(Model.fields)

Eligible(mode) == \E k \in FieldIndexes : Included(Model.fields[k], mode)

\* The resolved view structs of a mode (at most one is ever expected).
ViewsFor(mode) == SelectSeq(views, LAMBDA v : v.mode = mode)

FieldNames(fields) == [j \in 1..Len(fields) |-> fields[j].ident]

\* Places (view, field) where a field named ident stands in a view of mode.
Places(ident, mode) ==
    {pl \in UNION {{<<i, j>> : j \in 1..Len(views[i].fields)} :
                     i \in 1..Len(views)} :
        /\ views[pl[1]].mode = mode
        /\ views[pl[1]].fields[pl[2]].ident = ident}

(***************************************************************************)
(* C1: when derivation succeeds, a field stands in the view of a mode      *)
(* exactly once if its policy for that mode is not forbidden and not at    *)
(* all if it is, and a view holds no field the model does not declare.     *)
(***************************************************************************)
C1_FieldInViewIffNotForbidden ==
    Derived =>
        /\ \A mode \in ViewModes : \A k \in FieldIndexes :
              Cardinality(Places(Model.fields[k].ident, mode))
                  = IF Included(Model.fields[k], mode) THEN 1 ELSE 0
        /\ \A i \in 1..Len(views) : \A j \in 1..Len(views[i].fields) :
              \E k \in FieldIndexes :
                  Model.fields[k].ident = views[i].fields[j].ident

\* A struct with one field forbidden for create and another one included:
\* the Create view holds the second and not the first.
C1_Witness ==
    /\ Derived
    /\ Len(Model.fields) = 2
    /\ ~Included(Model.fields[1], ViewModeCreate)
    /\ Included(Model.fields[2], ViewModeCreate)
    /\ Len(ViewsFor(ViewModeCreate)) = 1
    /\ FieldNames(ViewsFor(ViewModeCreate)[1].fields)
           = <<Model.fields[2].ident>>

C3_EmptyViewStillGenerated ==
    \A mode \in ViewModes :
        (Derived /\ Len(Model.fields) >= 1 /\ ~Eligible(mode)) =>
            \E i \in 1..Len(views) :
                views[i].mode = mode /\ views[i].fields = <<>>

(***************************************************************************)
(* C4: the field names of every view are the model's field names in        *)
(* declaration order, those forbidden for the view's mode left out.        *)
(***************************************************************************)
C4_ViewKeepsDeclarationOrder ==
    Derived =>
        \A i \in 1..Len(views) :
            FieldNames(views[i].fields)
                = FieldNames(SelectSeq(Model.fields,
                                       LAMBDA f : Included(f, views[i].mode)))

\* A view of two or more fields.
C4_Witness ==
    /\ Derived
    /\ \E i \in 1..Len(views) :
          /\ views[i].mode = ViewModeGet
          /\ Len(views[i].fields) >= 2
          /\ views[i].fields[1].ident = Model.fields[1].ident

(***************************************************************************)
(* C5: the resolved type of a view field follows from its policy: for get  *)
(* and create, required gives the field type's shape and optional gives    *)
(* Option of it; for patch, patch gives Patch of the shape and optional    *)
(* gives Patch<Option<shape>>.  A scalar's shape is the scalar itself in   *)
(* every mode.  The documented User struct derives                         *)
(* Get {id, name, email: Option<String>},                                  *)
(* Create {name, email: Option<String>} and                                *)
(* Patch {name: Patch<String>, email: Patch<Option<String>>}.              *)
(***************************************************************************)
ExpectedWrap(mode, policy) ==
    IF mode = ViewModePatch
       THEN (IF policy = "optional" THEN <<"Patch", "Option">> ELSE <<"Patch">>)
       ELSE (IF policy = "optional" THEN <<"Option">> ELSE <<>>)

UserViews ==
    {[ident |-> "UserGet", mode |-> ViewModeGet,
      fields |-> <<[ident |-> "id", ty |-> Some(<<"i64">>)],
                   [ident |-> "name", ty |-> Some(<<"String">>)],
                   [ident |-> "email", ty |-> Some(<<"Option", "String">>)]>>],
     [ident |-> "UserCreate", mode |-> ViewModeCreate,
      fields |-> <<[ident |-> "name", ty |-> Some(<<"String">>)],
                   [ident |-> "email", ty |-> Some(<<"Option", "String">>)]>>],
     [ident |-> "UserPatch", mode |-> ViewModePatch,
      fields |-> <<[ident |-> "name", ty |-> Some(<<"Patch", "String">>)],
                   [ident |-> "email",
                    ty |-> Some(<<"Patch", "Option", "String">>)]>>]}

Unknown(f, mode) == PolicyFor(f, mode) \notin KnownPolicies(mode)

C6_UnknownPolicyFailsWholeDerive ==
    (/\ meta # None
     /\ Model.data = "struct"
     /\ \E k \in FieldIndexes : \E mode \in ViewModes :
           Unknown(Model.fields[k], mode))
        => /\ out.panic # None
           /\ out.items = <<>>
           /\ views = <<>>

\* Only the patch policy of the second field is unknown; get and create are
\* known for every field and eligible, and still there is no view.
C6_Witness ==
    /\ meta # None
    /\ Len(Model.fields) = 2
    /\ Unknown(Model.fields[2], ViewModePatch)
    /\ \A k \in FieldIndexes : \A mode \in {ViewModeGet, ViewModeCreate} :
          /\ ~Unknown(Model.fields[k], mode)
          /\ Included(Model.fields[k], mode)
    /\ ~Unknown(Model.fields[1], ViewModePatch)
    /\ out.panic # None
    /\ views = <<>>

(***************************************************************************)
(* C7, as the specification states it: the panic message for an unknown    *)
(* policy string names the field that carries it and the string.           *)
(***************************************************************************)
C7_MessageNamesFieldAndToken ==
    (meta # None /\ Model.data = "struct" /\ out.panic # None) =>
        \E k \in FieldIndexes : \E mode \in ViewModes :
            /\ Unknown(Model.fields[k], mode)
            /\ Model.fields[k].ident \in Range(out.panic[1])
            /\ PolicyFor(Model.fields[k], mode) \in Range(out.panic[1])

\* The first unknown policy in the order the loop meets them: fields in
\* declaration order, get before create before patch.
ModeOrder == <<ViewModeGet, ViewModeCreate, ViewModePatch>>

FirstUnknown(k, n) ==
    /\ Unknown(Model.fields[k], ModeOrder[n])
    /\ \A k2 \in FieldIndexes : \A n2 \in 1..3 :
          (k2 < k \/ (k2 = k /\ n2 < n)) =>
              ~Unknown(Model.fields[k2], ModeOrder[n2])

(***************************************************************************)
(* C7, amended: the panic message for an unknown policy string names the   *)
(* mode of the policy (get, create or patch) and the string, those of the  *)
(* first unknown policy met; it holds nothing else, so no field name.      *)
(***************************************************************************)
C7_MessageNamesModeAndToken ==
    (meta # None /\ Model.data = "struct" /\ out.panic # None) =>
        /\ \E k \in FieldIndexes : \E n \in 1..3 :
              /\ FirstUnknown(k, n)
              /\ out.panic[1]
                     = <<"unknown " \o ModeWord(ModeOrder[n]) \o " policy: ",
                         PolicyFor(Model.fields[k], ModeOrder[n])>>
        /\ \A k \in FieldIndexes :
              Model.fields[k].ident \notin Range(out.panic[1])

\* The create policy of the second field is the first unknown one.
C7_Witness ==
    /\ meta # None
    /\ Model.data = "struct"
    /\ Len(Model.fields) = 2
    /\ FirstUnknown(2, 2)
    /\ out.panic = Some(<<"unknown create policy: ", "patch">>)

(***************************************************************************)
(* C8: a field whose type is itself a derived struct resolves, in each     *)
(* mode that includes it, to that struct's own view of the same mode,      *)
(* wrapped as the field's policy says; this holds at every depth, every    *)
(* struct in scope having been derived the same way before: the View impl  *)
(* of a struct for a mode names the view struct derived from it for that   *)
(* mode, and that view holds the struct's own fields eligible for it.      *)
(***************************************************************************)
ExpectedViewIdent(name, mode) ==
    name \o (CASE mode = ViewModeGet -> "Get"
               [] mode = ViewModeCreate -> "Create"
               [] OTHER -> "Patch")

FieldNamed(ident) ==
    Model.fields[CHOOSE k \in FieldIndexes : Model.fields[k].ident = ident]

LacksView(f, mode) ==
    /\ f.ty \notin TrivialTypes
    /\ \A i \in impls : ~(i.for = f.ty /\ i.mode = mode)

C9_ForbiddenNeedsNoView ==
    /\ Derived
    /\ ~Unresolved(views)
    /\ \E k \in FieldIndexes : \E mode \in ViewModes :
          /\ ~Included(Model.fields[k], mode)
          /\ LacksView(Model.fields[k], mode)
          /\ \E i \in impls : i.for = Model.fields[k].ty

(***************************************************************************)
(* C10: Patch<T> and Option<T> are in bijection: converting a Patch to an  *)
(* Option and back gives the Patch again, converting an Option to a Patch  *)
(* and back gives the Option again; Update(v) goes to Some(v) and Ignore   *)
(* to None, and both conversions have a result for every value.            *)
(***************************************************************************)
C10_PatchOptionRoundTrip ==
    /\ patch \in PatchValues(T)
    /\ option \in OptionValues(T)
    /\ call.op = "into_option" =>
          /\ PatchFromOption(option) = call.arg[1]
          /\ option = IF call.arg[1] = Ignore
                         THEN None
                         ELSE Some(call.arg[1].value)
    /\ call.op = "from_option" =>
          /\ OptionFromPatch(patch) = call.arg[1]
          /\ patch = IF call.arg[1] = None
                        THEN Ignore
                        ELSE Update(call.arg[1][1])

\* Update(None) of a Patch<Option<i32>> was converted to Some(None).
C10_Witness ==
    /\ T = "Option<i32>"
    /\ call = [op |-> "into_option", arg |-> Some(Update(None))]
    /\ option = Some(None)

(***************************************************************************)
(* C11: a Patch p compared with an Option o (p == o): Update(v) equals     *)
(* Some(v2) exactly when v = v2, Ignore equals None, Update(v) never       *)
(* equals None and Ignore never equals a Some; so p == o holds exactly     *)
(* when p converted to an Option is o, and exactly when p is o converted   *)
(* to a Patch.                                                             *)
(***************************************************************************)
C11_CrossTypeEquality ==
    call.op = "eq" =>
        LET p == call.arg[1][1]
            o == call.arg[1][2]
        IN  /\ call.ret \in BOOLEAN
            /\ call.ret <=> (OptionFromPatch(p) = o)
            /\ call.ret <=> (p = PatchFromOption(o))
            /\ (p = Ignore /\ o = None) => call.ret
            /\ (p # Ignore /\ o = None) => ~call.ret
            /\ (p = Ignore /\ o # None) => ~call.ret
            /\ (p # Ignore /\ o # None) => (call.ret <=> (p.value = o[1]))

\* Update(None) of a Patch<Option<i32>> was compared with Some(None) and they
\* were equal.
C11_Witness ==
    /\ T = "Option<i32>"
    /\ call.op = "eq"
    /\ call.arg[1] = <<Update(None), Some(None)>>
    /\ call.ret

\* Update(None) of a Patch<Option<i32>> was compared with None and they were
\* not equal.
C11_UpdateNoneIsNotNone ==
    /\ T = "Option<i32>"
    /\ call.op = "eq"
    /\ call.arg[1] = <<Update(None), None>>
    /\ ~call.ret

(***************************************************************************)
(* C12: decoding one field of a patch payload: a field that the payload    *)
(* omits decodes to Ignore, and a field that the payload supplies decodes  *)
(* to Update of the supplied value; for a Patch<Option<T>> a supplied      *)
(* null is the value None, so it decodes to Update(None).                  *)
(***************************************************************************)
C12_SuppliedFieldDecodesToUpdate ==
    call.op = "deserialize" =>
        LET w == call.arg[1]
        IN  /\ w = Missing => call.ret = Ok(Ignore)
            /\ w.json = "number" =>
                  call.ret = Ok(Update(IF T = "i32" THEN w.n ELSE Some(w.n)))
            /\ (w = Null /\ T = "Option<i32>") => call.ret = Ok(Update(None))

(***************************************************************************)
(* C13: a policy left out of #[views(...)] behaves as the default of its   *)
(* mode written out (get = "required", create = "required",                *)
(* patch = "patch"): the macro returns the same for the struct as declared *)
(* and for the struct with the defaults written out, and a field with no   *)
(* policy at all stands in all three views, as its get shape, its create   *)
(* shape and Patch of its patch shape.                                     *)
(***************************************************************************)
DefaultPolicy(mode) ==
    CASE mode = ViewModeGet -> "required"
      [] mode = ViewModeCreate -> "required"
      [] OTHER -> "patch"

WrittenOut(f) ==
    [f EXCEPT !.get = IF @ = None THEN Some(DefaultPolicy(ViewModeGet)) ELSE @,
              !.create = IF @ = None
                            THEN Some(DefaultPolicy(ViewModeCreate))
                            ELSE @,
              !.patch = IF @ = None
                           THEN Some(DefaultPolicy(ViewModePatch))
                           ELSE @]

WrittenOutModel ==
    [Model EXCEPT !.fields = [k \in 1..Len(@) |-> WrittenOut(@[k])]]

Untagged(f) == f.get = None /\ f.create = None /\ f.patch = None

C13_OmittedPolicyIsDefault ==
    meta # None =>
        /\ out = derive_views(WrittenOutModel)
        /\ Derived =>
              \A k \in FieldIndexes : \A mode \in ViewModes :
                  Untagged(Model.fields[k]) =>
                      \E i \in 1..Len(views) :
                          /\ views[i].mode = mode
                          /\ \E j \in 1..Len(views[i].fields) :
                                views[i].fields[j] =
                                    [ident |-> Model.fields[k].ident,
                                     ty |-> Some(ExpectedWrap(mode,
                                                     DefaultPolicy(mode))
                                                 \o <<Model.fields[k].ty>>)]

\* A struct of two fields was derived, the first with no policy at all, the
\* second with some policy left out and another forbidden.
C13_Witness ==
    /\ Derived
    /\ Len(Model.fields) = 2
    /\ Untagged(Model.fields[1])
    /\ Model.fields[2].patch = None
    /\ Model.fields[2].get = Some("forbidden")
    /\ Len(views) = 3

(***************************************************************************)
(* C14: Patch::default() is Ignore whatever type the Patch wraps:          *)
(* is_ignore holds of it and it converts to None.  is_ignore answers true  *)
(* for Ignore and false for every Update(v).                               *)
(***************************************************************************)
C14_DefaultIsIgnore ==
    /\ call.op = "default" =>
          /\ patch = Ignore
          /\ is_ignore(patch)
          /\ OptionFromPatch(patch) = None
    /\ call.op = "is_ignore" =>
          /\ call.ret \in BOOLEAN
          /\ call.ret <=> (call.arg[1] = Ignore)
          /\ call.arg[1] \in {Update(v) : v \in Values(T)} => ~call.ret

\* A Patch<Option<i32>> was taken from Default after its Option had been
\* given a value.
C14_Witness ==
    /\ T = "Option<i32>"
    /\ call.op = "default"
    /\ patch = Ignore
    /\ option = Some(None)

\* is_ignore was asked of Update(None) and answered false.
C14_UpdateNoneIsNotIgnore ==
    /\ call.op = "is_ignore"
    /\ call.arg[1] = Update(None)
    /\ ~call.ret

(***************************************************************************)
(* C15: with every policy string known, the three modes are derived        *)
(* independently.  Giving one field another known policy for one mode      *)
(* leaves the items and the views of the two other modes as they were; in  *)
(* that mode the other fields keep their place and shape, the field is in  *)
(* the view exactly when its new policy is not "forbidden", shaped as that *)
(* policy says, and the view exists exactly when some field is still       *)
(* eligible.                                                               *)
(***************************************************************************)
AllKnown(m) ==
    \A k \in 1..Len(m.fields) : \A mode \in ViewModes :
        PolicyFor(m.fields[k], mode) \in KnownPolicies(mode)

\* The struct m with the policy of its k-th field for a mode set to token.
WithPolicy(m, k, mode, token) ==
    CASE mode = ViewModeGet -> [m EXCEPT !.fields[k].get = Some(token)]
      [] mode = ViewModeCreate -> [m EXCEPT !.fields[k].create = Some(token)]
      [] OTHER -> [m EXCEPT !.fields[k].patch = Some(token)]

ItemsOf(items, mode) == SelectSeq(items, LAMBDA it : it.impl.mode = mode)

ViewsOf(vs, mode) == SelectSeq(vs, LAMBDA v : v.mode = mode)

\* The fields of the view of a mode, none when there is no such view.
FieldsOf(vs, mode) ==
    IF ViewsOf(vs, mode) = <<>> THEN <<>> ELSE ViewsOf(vs, mode)[1].fields

Without(fields, ident) == SelectSeq(fields, LAMBDA fd : fd.ident # ident)

Only(fields, ident) == SelectSeq(fields, LAMBDA fd : fd.ident = ident)

====
